---------------------------- MODULE Spec2Model ----------------------------
(***************************************************************************)
(* A model of aerler/Ensemble: the argument expander of                    *)
(* src/src/ensemble/expand.py (expandArgumentList and its helpers) and the *)
(* Ensemble container of src/src/ensemble/base.py with its indexing, its   *)
(* attribute dispatch, the sequential and the parallel call of             *)
(* EnsembleWrapper, the recaster, and BatchLoad of expand.py.              *)
(*                                                                         *)
(* Python values are records [kind, id, items]:                            *)
(*   kind "num"   a number (no len(), not iterable), named by id           *)
(*   kind "chr"   one character obtained by iterating a string             *)
(*   kind "str"   a string, items = its characters                         *)
(*   kind "list"  a list,   items = its elements                           *)
(*   kind "tuple" a tuple,  items = its elements                           *)
(* A dict is a function whose DOMAIN is its key set.  A raised exception   *)
(* is a result record whose status is the exception's class name.          *)
(***************************************************************************)
EXTENDS Integers, Sequences, FiniteSets, TLC

VARIABLES
  kwargs,       \* expandArgumentList: the keyword arguments (**kwargs)
  inner_list,   \* expandArgumentList: parameter inner_list
  outer_list,   \* expandArgumentList: parameter outer_list
  expand_list,  \* expandArgumentList: parameter expand_list (legacy)
  lproduct,     \* expandArgumentList: parameter lproduct (legacy)
  arg_dicts,    \* outcome of the call: [status, value]; status "pending" before it
  members,      \* Ensemble.members: the ordered member list (objects)
  dict,         \* Ensemble.__dict__, the entries keyed by member ids: id-key -> object
  basetype,     \* Ensemble.basetype: the class every member has to be an instance of
  last,         \* the last Ensemble call: operation, argument and outcome
  raised,       \* some Ensemble call so far has raised
  out,          \* the value the last indexing or dispatch call returned
  calls,        \* the member methods the last dispatch invoked, in order
  par           \* the parallel dispatch under way: the coordinator and its work units

vars == <<kwargs, inner_list, outer_list, expand_list, lproduct, arg_dicts,
          members, dict, basetype, last, raised, out, calls, par>>

expandVars == <<kwargs, inner_list, outer_list, expand_list, lproduct, arg_dicts>>
ensVars == <<members, dict, basetype, last, raised, out, calls, par>>

---------------------------------------------------------------------------
(* Bounds *)

\* longest list given as a keyword argument
MaxLen == 4
\* most entries in inner_list and outer_list together
MaxDir == 3
\* most members an ensemble is given at construction
MaxInit == 2
\* most members an ensemble grows to
MaxMembers == 3
\* longest list an ensemble is indexed with
MaxIndex == 2

---------------------------------------------------------------------------
(* Python values *)

Num(n) == [kind |-> "num", id |-> n, items |-> <<>>]
Chr(n) == [kind |-> "chr", id |-> n, items |-> <<>>]
Str(s) == [kind |-> "str", id |-> 0, items |-> s]
List(s) == [kind |-> "list", id |-> 0, items |-> s]
Tuple(s) == [kind |-> "tuple", id |-> 0, items |-> s]

\* isinstance(v, (list,tuple))
IsListOrTuple(v) == v.kind \in {"list", "tuple"}
\* len(v) is defined (otherwise len raises TypeError)
HasLen(v) == v.kind \in {"str", "list", "tuple"}
PyLen(v) == Len(v.items)
\* v * n for a list or tuple v
Repeat(v, n) ==
  [v EXCEPT !.items = [i \in 1..(Len(v.items) * n) |-> v.items[((i - 1) % Len(v.items)) + 1]]]

\* outcomes of a call
Ok(v) == [status |-> "ok", value |-> v]
Raise(e) == [status |-> e, value |-> <<>>]
Pending == [status |-> "pending", value |-> <<>>]

\* an optional list argument: None or a list
None == [isNone |-> TRUE, items |-> <<>>]
Some(l) == [isNone |-> FALSE, items |-> l]
\* Python truth value of an optional list
Truthy(d) == ~d.isNone /\ d.items # <<>>
\* `d or []`
OrEmpty(d) == IF Truthy(d) THEN d.items ELSE <<>>

\* entries of a directive list: a name, a tuple of names, or something else (a number)
Name(n) == [kind |-> "str", names |-> <<n>>]
Group(ns) == [kind |-> "tuple", names |-> ns]
Other == [kind |-> "other", names |-> <<>>]

\* dict helpers
Restrict(f, S) == [k \in S |-> f[k]]
Update(f, g) == [k \in (DOMAIN f) \cup (DOMAIN g) |-> IF k \in DOMAIN g THEN g[k] ELSE f[k]]
Range(s) == {s[i] : i \in 1..Len(s)}
Min(S) == CHOOSE m \in S : \A n \in S : m <= n

\* zip(*vs) for a sequence vs of iterables: the tuples of their i-th elements
Zip(vs) ==
  IF vs = <<>> THEN <<>>
  ELSE LET n == Min({PyLen(vs[j]) : j \in 1..Len(vs)})
       IN  [i \in 1..n |-> Tuple([j \in 1..Len(vs) |-> vs[j].items[i]])]

---------------------------------------------------------------------------
(* expand.py: _loop_recursion *)

\* the dict key an entry of a (cleaned) expansion list stands for
Key(el) == el.names[1]

RECURSIVE loop_recursion(_, _, _)
RECURSIVE loop_over(_, _, _, _, _)

\* lines 30-33: `for arg in kwargs[arg_name]`, over the items still to visit; every
\* branch appends to the same list_dict
loop_over(loop_list, list_dict, kw, arg_name, todo) ==
  IF todo = <<>> THEN list_dict
  ELSE loop_over(loop_list,
                 loop_recursion(loop_list, list_dict, [kw EXCEPT ![arg_name] = Head(todo)]),
                 [kw EXCEPT ![arg_name] = Head(todo)], arg_name, Tail(todo))

\* lines 26-39: one recursion level; the first name of loop_list is the outermost loop
loop_recursion(loop_list, list_dict, kw) ==
  IF Len(loop_list) > 0
  THEN loop_over(Tail(loop_list), list_dict, kw, Key(Head(loop_list)),
                 kw[Key(Head(loop_list))].items)
  ELSE [key \in DOMAIN list_dict |->
          IF key \in DOMAIN kw THEN List(Append(list_dict[key].items, kw[key]))
          ELSE list_dict[key]]

\* the loops nested the other way round, as if names were taken from the end of loop_list
loop_recursion_top_last_first(loop_list, kw) ==
  loop_recursion([i \in 1..Len(loop_list) |-> loop_list[Len(loop_list) + 1 - i]],
                 [key \in DOMAIN kw |-> List(<<>>)], kw)

\* lines 19-22: the first recursion level starts from one empty list per keyword
loop_recursion_top(loop_list, kw) ==
  loop_recursion(loop_list, [key \in DOMAIN kw |-> List(<<>>)], kw)

---------------------------------------------------------------------------
(* expand.py: _prepareList *)

\* `el in kwargs`: only a string can be a key of the keyword dict
InDict(el, kw) == el.kind = "str" /\ Key(el) \in DOMAIN kw

\* lines 42-50: drop the names kwargs lacks, move the others out of kwargs, check types
prepareList(exp_list, kw) ==
  LET present == SelectSeq(exp_list, LAMBDA el : InDict(el, kw))
      keys == {Key(present[i]) : i \in 1..Len(present)}
      exp_dict == [k \in keys |-> kw[k]]
  IN  IF \E i, j \in 1..Len(present) : i < j /\ present[i] = present[j]
      THEN [status |-> "KeyError", exp_list |-> <<>>, exp_dict |-> <<>>]
      ELSE IF \E k \in keys : ~IsListOrTuple(exp_dict[k])
      THEN [status |-> "TypeError", exp_list |-> <<>>, exp_dict |-> <<>>]
      ELSE [status |-> "ok", exp_list |-> present, exp_dict |-> exp_dict]

---------------------------------------------------------------------------
(* expand.py: expandArgumentList, outer product (lines 73-118) *)

RECURSIVE Join(_)
\* '_'.join(names)
Join(names) ==
  IF names = <<>> THEN ""
  ELSE IF Len(names) = 1 THEN names[1]
  ELSE names[1] \o "_" \o Join(Tail(names))

\* line 89: the name of the fake argument that stands for a parallel group
FakeName(names) == "TMP_" \o Join(names) \o "_" \o ToString(Len(names))

StageError(e) ==
  [status |-> e, outer_list |-> <<>>, list_dict |-> <<>>, lstlen |-> 0]

\* the length check left out, so that zip cuts the lists to the shortest
same_length_unchecked(par_args) == TRUE

\* line 86: all lists of a parallel group are as long as the first
same_length(par_args) ==
  \A i \in 1..Len(par_args) : PyLen(par_args[i]) = PyLen(par_args[1])

RECURSIVE par_scan(_, _, _)
\* lines 82-92: `for kw in outer_list`, over the entries still to visit; a parallel
\* group is popped from kwtmp and replaced by one fake argument, a list of tuples
par_scan(todo, kwtmp, par_dict) ==
  IF todo = <<>> THEN [status |-> "ok", kwtmp |-> kwtmp, par_dict |-> par_dict]
  ELSE LET kw == Head(todo) IN
    IF kw.kind = "tuple" THEN
      LET names == kw.names
          par_args == [i \in 1..Len(names) |-> kwtmp[names[i]]]
          fake == FakeName(names)
      IN  IF \/ \E i \in 1..Len(names) : names[i] \notin DOMAIN kwtmp
             \/ \E i, j \in 1..Len(names) : i < j /\ names[i] = names[j]
          THEN [status |-> "KeyError", kwtmp |-> kwtmp, par_dict |-> par_dict]
          ELSE IF \E i \in 1..Len(names) : ~HasLen(par_args[i])
          THEN [status |-> "TypeError", kwtmp |-> kwtmp, par_dict |-> par_dict]
          ELSE IF ~same_length(par_args)
          THEN [status |-> "ArgumentError", kwtmp |-> kwtmp, par_dict |-> par_dict]
          ELSE par_scan(Tail(todo),
                        Update(Restrict(kwtmp, (DOMAIN kwtmp) \ Range(names)),
                               [k \in {fake} |-> List(Zip(par_args))]),
                        Update(par_dict, [k \in {fake} |-> names]))
    ELSE IF kw.kind # "str"
    THEN [status |-> "TypeError", kwtmp |-> kwtmp, par_dict |-> par_dict]
    ELSE par_scan(Tail(todo), kwtmp, par_dict)

\* lines 94-98: the first occurrence of every recorded group becomes its fake name
replace_groups(outer, par_dict) ==
  [i \in 1..Len(outer) |->
     IF /\ outer[i].kind = "tuple"
        /\ \E fake \in DOMAIN par_dict : par_dict[fake] = outer[i].names
        /\ \A j \in 1..(i - 1) : outer[j] # outer[i]
     THEN Name(FakeName(outer[i].names))
     ELSE outer[i]]

RECURSIVE Product(_, _)
\* lines 102-104: lstlen, the product of the lengths of the outer lists
Product(exp_list, exp_dict) ==
  IF exp_list = <<>> THEN 1
  ELSE PyLen(exp_dict[Key(Head(exp_list))]) * Product(Tail(exp_list), exp_dict)

\* lines 113-118: every fake argument is transposed back into its group's arguments
disassemble(list_dict, par_dict, lstlen, outer) ==
  LET par_args(fake) == Zip(list_dict[fake].items)
      grouped == UNION {Range(par_dict[fake]) : fake \in DOMAIN par_dict}
      owner(name) == CHOOSE fake \in DOMAIN par_dict : name \in Range(par_dict[fake])
      pos(name) == CHOOSE i \in 1..Len(par_dict[owner(name)]) : par_dict[owner(name)][i] = name
  IN  IF \E fake \in DOMAIN par_dict :
           \/ fake \notin DOMAIN list_dict
           \/ Len(par_args(fake)) # Len(par_dict[fake])
      THEN StageError("AssertionError")
      ELSE [status |-> "ok", outer_list |-> outer, lstlen |-> lstlen,
            list_dict |->
              [k \in ((DOMAIN list_dict) \ (DOMAIN par_dict)) \cup grouped |->
                 IF k \in grouped THEN par_args(owner(k))[pos(k)] ELSE list_dict[k]]]

\* lines 74-118: the outer product of the arguments named in outer_list
outer_stage(outer, inner, kw) ==
  LET inner_names == {Key(inner[i]) : i \in {j \in 1..Len(inner) : inner[j].kind = "str"}}
      kwtmp == Restrict(kw, (DOMAIN kw) \ inner_names)
      scan == par_scan(outer, kwtmp, <<>>)
      replaced == replace_groups(outer, scan.par_dict)
      prep == prepareList(replaced, scan.kwtmp)
      lstlen == Product(prep.exp_list, prep.exp_dict)
      list_dict == loop_recursion_top(prep.exp_list, prep.exp_dict)
  IN  IF scan.status # "ok" THEN StageError(scan.status)
      ELSE IF \E i \in 1..Len(replaced) : replaced[i].kind # "str"
      THEN StageError("AssertionError")
      ELSE IF prep.status # "ok" THEN StageError(prep.status)
      ELSE IF \/ \E key \in DOMAIN list_dict : key \notin DOMAIN prep.exp_dict
              \/ \E key \in DOMAIN list_dict : PyLen(list_dict[key]) # lstlen
      THEN StageError("AssertionError")
      ELSE disassemble(list_dict, scan.par_dict, lstlen, prep.exp_list)

---------------------------------------------------------------------------
(* expand.py: expandArgumentList, inner product and assembly (lines 120-145) *)

\* lines 131-132: a list of length one is repeated lstlen times
broadcast(v, lstlen) == IF PyLen(v) = 1 THEN Repeat(v, lstlen) ELSE v

\* the expanded outer arguments not carried over into the inner product
inner_kwtmp_no_update(o, kw) == kw

\* lines 122-124: the keywords the inner product draws from: the expanded outer
\* arguments replace the lists they were expanded from
inner_kwtmp(o, kw) == IF Len(o.outer_list) > 0 THEN Update(kw, o.list_dict) ELSE kw

\* lines 121-135: the inner product; the expanded outer arguments, if any, come first
inner_stage(o, inner, kw) ==
  LET kwtmp == inner_kwtmp(o, kw)
      inner_all == IF Len(o.outer_list) > 0 THEN o.outer_list \o inner ELSE inner
      prep == prepareList(inner_all, kwtmp)
      lstlen == PyLen(prep.exp_dict[Key(prep.exp_list[1])])
  IN  IF prep.status # "ok" THEN StageError(prep.status)
      ELSE IF prep.exp_list = <<>> THEN StageError("IndexError")
      ELSE IF \E i \in 1..Len(prep.exp_list) :
                PyLen(prep.exp_dict[Key(prep.exp_list[i])]) \notin {1, lstlen}
      THEN StageError("TypeError")
      ELSE [status |-> "ok", outer_list |-> inner_all, lstlen |-> lstlen,
            list_dict |-> [k \in DOMAIN prep.exp_dict |-> broadcast(prep.exp_dict[k], lstlen)]]

\* lines 138-143: one argument dict per position, the keyword arguments overlaid
\* with the n-th element of every expanded list
assemble(list_dict, lstlen, kw) ==
  IF lstlen > 0 /\ \E key \in DOMAIN list_dict : PyLen(list_dict[key]) < lstlen
  THEN Raise("IndexError")
  ELSE Ok([n \in 1..lstlen |->
             Update(kw, [key \in DOMAIN list_dict |-> list_dict[key].items[n]])])

\* the test for None only, an empty list taken for a directive
nothing_to_do_none_only(inner0, outer0, expand0) ==
  expand0.isNone /\ inner0.isNone /\ outer0.isNone

\* line 61: no list asks for an expansion (None and the empty list alike)
nothing_to_do(inner0, outer0, expand0) ==
  ~(Truthy(expand0) \/ Truthy(inner0) \/ Truthy(outer0))

\* lines 54-145
expandArgumentList(inner0, outer0, expand0, lprod, kw) ==
  IF nothing_to_do(inner0, outer0, expand0) THEN Ok(<<kw>>)
  ELSE IF ~expand0.isNone /\ (~inner0.isNone \/ ~outer0.isNone) THEN Raise("ArgumentError")
  ELSE IF ~expand0.isNone /\ lprod \notin {"inner", "outer"} THEN Raise("ArgumentError")
  ELSE
    LET inner == OrEmpty(IF ~expand0.isNone /\ lprod = "inner" THEN expand0 ELSE inner0)
        outer == OrEmpty(IF ~expand0.isNone /\ lprod = "outer" THEN expand0 ELSE outer0)
        o == IF Len(outer) > 0 THEN outer_stage(outer, inner, kw)
             ELSE [status |-> "ok", outer_list |-> outer, list_dict |-> <<>>, lstlen |-> 0]
        i == IF Len(inner) > 0 THEN inner_stage(o, inner, kw) ELSE o
    IN  IF o.status # "ok" THEN Raise(o.status)
        ELSE IF i.status # "ok" THEN Raise(i.status)
        ELSE assemble(i.list_dict, i.lstlen, kw)

---------------------------------------------------------------------------
(* base.py: the Ensemble container *)

\* the value of a member's id-key attribute: a string, or something else (None)
StrKey(s) == [str |-> TRUE, v |-> s]
NoneKey == [str |-> FALSE, v |-> "None"]

\* the objects handed to an ensemble: a1 and a2 are two objects of the same name, x is
\* of another class than the others, n has no string for a name
Objects == {"a1", "b1", "a2", "x", "n"}
\* two more objects an ensemble is constructed from: r is named like a data attribute
\* of the ensemble, p like one of its methods
InitObjects == Objects \cup {"r", "p"}
\* apply_method returns the member as the worker process left it: what comes back to
\* the coordinator is another object than the one submitted, with the same attributes
Copy(o) == o \o "'"
Original(o) == IF o \in InitObjects THEN o ELSE CHOOSE m \in InitObjects : Copy(m) = o
ClassOf(o) == IF Original(o) = "x" THEN "Foreign" ELSE "Base"
\* getattr(member, self.idkey)
IdKey(o) ==
  CASE Original(o) = "a1" -> StrKey("A")
    [] Original(o) = "a2" -> StrKey("A")
    [] Original(o) = "b1" -> StrKey("B")
    [] Original(o) = "x"  -> StrKey("X")
    [] Original(o) = "n"  -> NoneKey
    [] Original(o) = "r"  -> StrKey("members")
    [] Original(o) = "p"  -> StrKey("prettyPrint")

\* the argument of hasMember and removeMember: an object, or a key
ObjArg(o) == [isobj |-> TRUE, obj |-> o, key |-> NoneKey]
KeyArg(k) == [isobj |-> FALSE, obj |-> "none", key |-> k]

\* outcomes of an Ensemble call: a returned truth value, or an exception
Ret(b) == [status |-> "ok", ret |-> b]
Exc(e) == [status |-> e, ret |-> FALSE]

\* no value: the last call was no indexing and no dispatch
NoValue == [shape |-> "nothing"]

\* no parallel dispatch is under way
Idle == [pc |-> "idle", attr |-> "none", NP |-> 0, callback |-> "none",
         units |-> <<>>, finished |-> <<>>, called |-> <<>>]

\* lines 103-122: the attributes __init__ stores in self.__dict__ besides the members
ReservedKeys ==
  {StrKey(s) : s \in {"members", "ens_name", "ens_title", "basetype", "idkey", "idkeys"}}

\* `key in self.__dict__`
InDunder(k, d) == k \in ReservedKeys \/ k \in DOMAIN d

\* lines 229-250: membership, with the consistency assertions
hasMember(a, ms, d, bt) ==
  IF a.isobj /\ ClassOf(a.obj) = bt THEN
    IF a.obj \in Range(ms)
    THEN IF ~InDunder(IdKey(a.obj), d) THEN Exc("AssertionError")
         ELSE IF IdKey(a.obj) \notin DOMAIN d \/ d[IdKey(a.obj)] # a.obj
         THEN Exc("AssertionError")
         ELSE Ret(TRUE)
    ELSE IF InDunder(IdKey(a.obj), d) THEN Exc("AssertionError") ELSE Ret(FALSE)
  ELSE IF ~a.isobj /\ a.key.str THEN
    IF InDunder(a.key, d)
    THEN IF a.key \notin DOMAIN d \/ d[a.key] \notin Range(ms) THEN Exc("AssertionError")
         ELSE IF IdKey(d[a.key]) # a.key THEN Exc("AssertionError")
         ELSE Ret(TRUE)
    ELSE IF \E i \in 1..Len(ms) : IdKey(ms[i]) = a.key THEN Exc("AssertionError")
         ELSE Ret(FALSE)
  ELSE Exc("TypeError")

\* line 127, `memid in self.__dict__` for the i-th member: an attribute set by line
\* 103-122, or the key of a member before it
key_taken_reserved_only(ms, i) == IdKey(ms[i]) \in ReservedKeys

key_taken(ms, i) ==
  \/ IdKey(ms[i]) \in ReservedKeys
  \/ \E j \in 1..(i - 1) : IdKey(ms[j]) = IdKey(ms[i])

ConstructError(e) == [status |-> e, members |-> <<>>, dict |-> <<>>, basetype |-> "none"]

\* lines 115-129: the checks and the index of Ensemble(*ms, basetype=bt)
construct_as(ms, bt) ==
  LET \* line 126-128: the first member, in order, that is refused
      nonstr(i) == ~IdKey(ms[i]).str
      taken(i) == key_taken(ms, i)
      bad == {i \in 1..Len(ms) : nonstr(i) \/ taken(i)}
      first == Min(bad)
  IN  IF \E i \in 1..Len(ms) : ClassOf(ms[i]) # bt THEN ConstructError("TypeError")
      ELSE IF bad # {} THEN ConstructError(IF nonstr(first) THEN "TypeError" ELSE "AttributeError")
      ELSE [status |-> "ok", members |-> ms, basetype |-> bt,
            dict |-> [k \in {IdKey(ms[i]) : i \in 1..Len(ms)} |->
                        CHOOSE o \in Range(ms) : IdKey(o) = k]]

\* lines 102-129: Ensemble(*ms), with basetype given as the members' class or inferred
\* from the first member
construct(ms, given_bt) ==
  IF ~given_bt /\ ms = <<>> THEN ConstructError("IndexError")
  ELSE construct_as(ms, IF given_bt THEN "Base" ELSE ClassOf(ms[1]))

---------------------------------------------------------------------------
(* base.py: what the members' attributes hold, and _recastList *)

\* the values an attribute of a member may hold or a member's method may return:
\*   "plain"   a value that is not callable and not a Variable or Dataset
\*   "none"    None
\*   "method"  a bound method
\*   "var"     a Variable: it has a name and the name of its dataset
\*   "axis"    an Axis, a Variable too
\*   "dataset" a Dataset: it has a name
Plain(o, a) ==
  [kind |-> "plain", of |-> o, attr |-> a, name |-> NoneKey, dataset |-> NoneKey]
NoneVal ==
  [kind |-> "none", of |-> "none", attr |-> "none", name |-> NoneKey, dataset |-> NoneKey]
Method(o, a) ==
  [kind |-> "method", of |-> o, attr |-> a, name |-> NoneKey, dataset |-> NoneKey]
Var(o, a, nm, ds) == [kind |-> "var", of |-> o, attr |-> a, name |-> nm, dataset |-> ds]
Axis(a) ==
  [kind |-> "axis", of |-> "none", attr |-> a, name |-> StrKey(a), dataset |-> NoneKey]
Dataset(o, a, nm) ==
  [kind |-> "dataset", of |-> o, attr |-> a, name |-> nm, dataset |-> NoneKey]
Missing == [kind |-> "missing", of |-> "none", attr |-> "none", name |-> NoneKey,
            dataset |-> NoneKey]

\* callable(v); line 136: Variable instances are callable
Callable(v) == v.kind \in {"method", "var", "axis"}
\* isinstance(v, (Variable,Dataset)), isinstance(v, Variable), ...
IsVarOrDataset(v) == v.kind \in {"var", "axis", "dataset"}
IsVariable(v) == v.kind \in {"var", "axis"}
IsAxis(v) == v.kind = "axis"
IsDataset(v) == v.kind = "dataset"

\* the attribute names asked of the members
AttrNames == {"units", "mean", "load", "fail", "mixed", "empty", "var", "time"}

\* getattr(o, a): "units" is a plain value on every object, "mean" and "load" are
\* methods, "mixed" is a method of the objects named A and a plain value of the others,
\* "empty" is None, "var" is a Variable named var of the dataset the object stands for,
\* "time" is an axis, "fail" is a method; no object has another attribute
GetAttrOf(o, a) ==
  CASE a = "units" -> Plain(o, a)
    [] a = "mean"  -> Method(o, a)
    [] a = "load"  -> Method(o, a)
    [] a = "fail"  -> Method(o, a)
    [] a = "mixed" -> IF IdKey(o) = StrKey("A") THEN Method(o, a) ELSE Plain(o, a)
    [] a = "empty" -> NoneVal
    [] a = "var"   -> Var(o, a, StrKey("var"), IdKey(o))
    [] a = "time"  -> Axis(a)
    [] OTHER       -> Missing

\* what calling a method returns: mean returns a new Variable named after the member,
\* load returns nothing but None, any other method a plain value
ResultOf(o, a) ==
  CASE a = "mean" -> Var(o, a, IdKey(o), NoneKey)
    [] a = "load" -> NoneVal
    [] OTHER      -> Plain(o, a)

\* calling the method raises: fail raises on the object named B
Raises(o, a) == a = "fail" /\ IdKey(o) = StrKey("B")

\* what indexing and dispatch return
Value(shape, items) == [status |-> "ok", shape |-> shape, items |-> items]
Throw(e) == [status |-> e, shape |-> "nothing", items |-> <<>>]
\* a new Ensemble
NewEnsemble(ms, d, bt, idkey) ==
  [status |-> "ok", shape |-> "ensemble", items |-> ms, index |-> d, basetype |-> bt,
   idkey |-> idkey]

\* lines 102-129 for Ensemble(*fs, idkey=idkey) of Variables or Datasets: basetype is
\* inferred from the first one (line 112-113), the keys are checked as for any member
ensemble_of(fs, idkey) ==
  LET bt == IF IsDataset(fs[1]) THEN "Dataset" ELSE "Variable"
      isbt(f) == IF bt = "Dataset" THEN IsDataset(f) ELSE IsVariable(f)
      key(i) == IF idkey = "name" THEN fs[i].name ELSE fs[i].dataset
      taken(i) == key(i) \in ReservedKeys \/ \E j \in 1..(i - 1) : key(j) = key(i)
      bad == {i \in 1..Len(fs) : ~key(i).str \/ taken(i)}
      first == Min(bad)
  IN  IF \E i \in 1..Len(fs) : ~isbt(fs[i]) THEN Throw("TypeError")
      ELSE IF bad # {} THEN Throw(IF ~key(first).str THEN "TypeError" ELSE "AttributeError")
      ELSE NewEnsemble(fs, [k \in {key(i) : i \in 1..Len(fs)} |->
                                fs[CHOOSE i \in 1..Len(fs) : key(i) = k]], bt, idkey)

\* the names that are not None, as a set (lines 142, 144, 163)
NamesOf(fs) == {fs[i].name : i \in 1..Len(fs)} \ {NoneKey}
DatasetNamesOf(fs) == {fs[i].dataset : i \in {j \in 1..Len(fs) : fs[j].dataset # NoneKey}}

\* lines 131-172: _recastList(fs) of an ensemble with the members ms (idkey 'name')
recastList(fs, ms) ==
  IF \A i \in 1..Len(fs) : fs[i].kind = "none" THEN Value("none", <<>>)
  ELSE IF \A i \in 1..Len(fs) : ~Callable(fs[i]) /\ ~IsVarOrDataset(fs[i])
  THEN Value("list", fs)
  ELSE IF \A i \in 1..Len(fs) : IsVarOrDataset(fs[i]) THEN
    IF \A i \in 1..Len(fs) : IsAxis(fs[i]) THEN Value("list", fs)
    ELSE IF \A i \in 1..Len(fs) : IsVariable(fs[i]) THEN
      IF Len(fs) = Cardinality(NamesOf(fs)) THEN ensemble_of(fs, "name")
      ELSE IF Len(fs) = Cardinality(DatasetNamesOf(fs)) THEN ensemble_of(fs, "dataset_name")
      \* line 156-158: every Variable has the attribute `name` already
      ELSE IF ms = <<>> THEN ensemble_of(fs, "name")
      ELSE Throw("DatasetError")
    ELSE IF \A i \in 1..Len(fs) : IsDataset(fs[i]) THEN
      IF Len(fs) = Cardinality(NamesOf(fs)) THEN ensemble_of(fs, "name")
      \* line 168-170: the results take the names of the members
      ELSE ensemble_of([i \in 1..Len(fs) |->
                          IF i <= Len(ms) THEN [fs[i] EXCEPT !.name = IdKey(ms[i])]
                          ELSE fs[i]], "name")
    ELSE Throw("TypeError")
  \* no branch of the if/elif chain is taken: the method ends and returns None
  ELSE Value("none", <<>>)

\* list.insert(i, m): a position outside the list is clamped to its ends
PyInsert(ms, i, m) ==
  LET j == IF i < 0 THEN (IF i + Len(ms) < 0 THEN 0 ELSE i + Len(ms))
           ELSE IF i > Len(ms) THEN Len(ms) ELSE i
  IN  SubSeq(ms, 1, j) \o <<m>> \o SubSeq(ms, j + 1, Len(ms))

\* `del ms[ms.index(m)]`: the first occurrence of m goes
RemoveFirst(ms, m) ==
  LET j == Min({i \in 1..Len(ms) : ms[i] = m})
  IN  SubSeq(ms, 1, j - 1) \o SubSeq(ms, j + 1, Len(ms))

\* self.__dict__[key] = m
SetKey(d, k, m) == Update(d, [x \in {k} |-> m])

\* the ensemble exists: its construction has not raised
Constructed == basetype # "none"

Record(op, a, had, result) == [op |-> op, arg |-> a, had |-> had, result |-> result]

\* lines 252-258: addMember(m)
AddMember(m) ==
  /\ Constructed /\ Len(members) < MaxMembers
  /\ IF ClassOf(m) # basetype
     THEN /\ UNCHANGED <<members, dict>>
          /\ last' = Record("addMember", ObjArg(m), "none", Exc("TypeError"))
     ELSE /\ members' = Append(members, m)
          /\ dict' = SetKey(dict, IdKey(m), m)
          /\ last' = Record("addMember", ObjArg(m), "none",
                            hasMember(ObjArg(m), members', dict', basetype))
  /\ raised' = (raised \/ last'.result.status # "ok")
  /\ out' = NoValue /\ calls' = <<>>
  /\ UNCHANGED basetype
  /\ UNCHANGED par
  /\ UNCHANGED expandVars

\* lines 260-266: insertMember(i, m)
InsertMember(i, m) ==
  /\ Constructed /\ Len(members) < MaxMembers
  /\ IF ClassOf(m) # basetype
     THEN /\ UNCHANGED <<members, dict>>
          /\ last' = Record("insertMember", ObjArg(m), "none", Exc("TypeError"))
     ELSE /\ members' = PyInsert(members, i, m)
          /\ dict' = SetKey(dict, IdKey(m), m)
          /\ last' = Record("insertMember", ObjArg(m), "none",
                            hasMember(ObjArg(m), members', dict', basetype))
  /\ raised' = (raised \/ last'.result.status # "ok")
  /\ out' = NoValue /\ calls' = <<>>
  /\ UNCHANGED basetype
  /\ UNCHANGED par
  /\ UNCHANGED expandVars

\* the object a call of removeMember is about: the one given, or the one of that key
Resolve(a, d) == IF a.isobj THEN a.obj ELSE IF a.key \in DOMAIN d THEN d[a.key] ELSE "none"

\* lines 268-283: removeMember(a), a an object or a key: the outcome, and the member
\* list and the index it leaves
removeMember(a, ms, d, bt) ==
  LET has == hasMember(a, ms, d, bt)
      member == Resolve(a, d)
      memid == IF a.isobj THEN IdKey(a.obj) ELSE a.key
      negate(r) == IF r.status = "ok" THEN Ret(~r.ret) ELSE r
      ms1 == RemoveFirst(ms, member)
      d1 == Restrict(d, (DOMAIN d) \ {memid})
  IN  IF has.status # "ok" THEN [result |-> has, members |-> ms, dict |-> d]
      ELSE IF has.ret
      THEN [result |-> negate(hasMember(ObjArg(member), ms1, d1, bt)),
            members |-> ms1, dict |-> d1]
      ELSE [result |-> negate(has), members |-> ms, dict |-> d]

RemoveMember(a) ==
  /\ Constructed
  /\ LET r == removeMember(a, members, dict, basetype)
     IN  /\ members' = r.members
         /\ dict' = r.dict
         /\ last' = Record("removeMember", a, Resolve(a, dict), r.result)
  /\ raised' = (raised \/ last'.result.status # "ok")
  /\ out' = NoValue /\ calls' = <<>>
  /\ UNCHANGED basetype
  /\ UNCHANGED par
  /\ UNCHANGED expandVars

\* the arguments of Ensemble(...): the members, and whether basetype is given
CtorArg(ms, given_bt) ==
  [isobj |-> FALSE, obj |-> "none", key |-> NoneKey, members |-> ms, basetype |-> given_bt]

\* a position given where a member or a key is expected
PosArg(i) == [isobj |-> FALSE, obj |-> "none", key |-> NoneKey, pos |-> i]
IsPos(a) == "pos" \in DOMAIN a

\* lines 352-356: del ens[a], a a key or a position
DelItem(a) ==
  /\ Constructed
  /\ LET has == hasMember(a, members, dict, basetype)
         r == removeMember(a, members, dict, basetype)
     IN  IF IsPos(a) \/ a.isobj \/ ~a.key.str
         THEN /\ UNCHANGED <<members, dict>>
              /\ last' = Record("delitem", a, "none", Exc("TypeError"))
         ELSE IF has.status # "ok"
         THEN /\ UNCHANGED <<members, dict>>
              /\ last' = Record("delitem", a, "none", has)
         ELSE IF ~has.ret
         THEN /\ UNCHANGED <<members, dict>>
              /\ last' = Record("delitem", a, "none", Exc("KeyError"))
         ELSE /\ members' = r.members
              /\ dict' = r.dict
              /\ last' = Record("delitem", a, Resolve(a, dict), r.result)
  /\ raised' = (raised \/ last'.result.status # "ok")
  /\ out' = NoValue /\ calls' = <<>>
  /\ UNCHANGED basetype
  /\ UNCHANGED par
  /\ UNCHANGED expandVars

\* a list of keys and positions given as an index
ListArg(l) == [isobj |-> FALSE, obj |-> "none", key |-> NoneKey, list |-> l]
IsList(a) == "list" \in DOMAIN a

\* lines 201 and 326: the attribute of every member, in member order
attrs_of(ms, attr) == [i \in 1..Len(ms) |-> GetAttrOf(ms[i], attr)]

\* self.members[i] for an integer i, counted from the end when negative
member_at(i, ms) ==
  IF 0 <= i /\ i < Len(ms) THEN Value("member", <<ms[i + 1]>>)
  ELSE IF i < 0 /\ 0 - Len(ms) <= i THEN Value("member", <<ms[Len(ms) + i + 1]>>)
  ELSE Throw("IndexError")

\* lines 319-338: ens[a] for a string or a position a
getitem_one(a, ms, d, bt) ==
  IF IsPos(a) THEN member_at(a.pos, ms)
  ELSE IF ~a.isobj /\ a.key.str THEN
    LET has == hasMember(a, ms, d, bt)
        atts == attrs_of(ms, a.key.v)
        r == recastList(atts, ms)
    IN  IF has.status # "ok" THEN Throw(has.status)
        ELSE IF has.ret THEN Value("member", <<d[a.key]>>)
        \* line 326-334: dispatch to the members' attributes; a missing one, a callable
        \* one or an AttributeError of the recast ends as AttributeError(item)
        ELSE IF \E i \in 1..Len(atts) : atts[i].kind = "missing" THEN Throw("AttributeError")
        ELSE IF \E i \in 1..Len(atts) : Callable(atts[i]) /\ ~IsVarOrDataset(atts[i])
        THEN Throw("AttributeError")
        ELSE r
  ELSE Throw("TypeError")

\* lines 339-343: ens[l] for a list l of strings and positions
getitem_list(l, ms, d, bt) ==
  LET rs == [k \in 1..Len(l) |-> getitem_one(l[k], ms, d, bt)]
      failed == {k \in 1..Len(l) : rs[k].status # "ok"}
      c == construct_as([k \in 1..Len(l) |-> rs[k].items[1]], bt)
  IN  IF failed # {} THEN Throw(rs[Min(failed)].status)
      \* line 115: what a dispatch returned is no instance of basetype
      ELSE IF \E k \in 1..Len(l) : rs[k].shape # "member" THEN Throw("TypeError")
      ELSE IF c.status # "ok" THEN Throw(c.status)
      ELSE NewEnsemble(c.members, c.dict, c.basetype, "name")

\* lines 316-344: ens[a]
getitem(a, ms, d, bt) ==
  IF IsList(a) THEN getitem_list(a.list, ms, d, bt) ELSE getitem_one(a, ms, d, bt)

\* line 204: the attributes of all members, as a list in member order
getattr_plain_list_reversed(atts, ms) ==
  Value("list", [i \in 1..Len(atts) |-> atts[Len(atts) + 1 - i]])

getattr_plain_list(atts, ms) == Value("list", atts)

\* lines 193-208: ens.attr for a name that is no attribute of the ensemble itself
getattr_any_callable(attr, ms) ==
  LET atts == attrs_of(ms, attr)
      callables == {i \in 1..Len(atts) : Callable(atts[i])}
  IN  IF \E i \in 1..Len(atts) : atts[i].kind = "missing" THEN Throw("AttributeError")
      ELSE IF callables = {} THEN getattr_plain_list(atts, ms)
      ELSE Value("wrapper", <<attr>>)

getattr(attr, ms) ==
  LET atts == attrs_of(ms, attr)
      callables == {i \in 1..Len(atts) : Callable(atts[i])}
  IN  IF \E i \in 1..Len(atts) : atts[i].kind = "missing" THEN Throw("AttributeError")
      ELSE IF callables = {} THEN getattr_plain_list(atts, ms)
      ELSE IF callables = 1..Len(atts) THEN Value("wrapper", <<attr>>)
      ELSE [Throw("EnsembleError") EXCEPT !.items = <<attr>>]

\* the outcome of an indexing or dispatch call, as the status of the call
StatusOf(v) == IF v.status = "ok" THEN Ret(TRUE) ELSE Exc(v.status)

\* lines 316-344: ens[a], which leaves the ensemble as it is
GetItem(a) ==
  /\ Constructed
  /\ out' = getitem(a, members, dict, basetype)
  /\ last' = Record("getitem", a, "none", StatusOf(out'))
  /\ raised' = (raised \/ last'.result.status # "ok")
  /\ calls' = <<>>
  /\ UNCHANGED <<members, dict, basetype>>
  /\ UNCHANGED par
  /\ UNCHANGED expandVars

\* lines 193-208: ens.attr
AttrArg(attr) == [isobj |-> FALSE, obj |-> "none", key |-> StrKey(attr)]

GetAttr(attr) ==
  /\ Constructed
  /\ out' = getattr(attr, members)
  /\ last' = Record("getattr", AttrArg(attr), "none", StatusOf(out'))
  /\ raised' = (raised \/ last'.result.status # "ok")
  /\ calls' = <<>>
  /\ UNCHANGED <<members, dict, basetype>>
  /\ UNCHANGED par
  /\ UNCHANGED expandVars

\* the arguments of a dispatched call: the method's name, the directives and the
\* keyword arguments
CallArg(attr, inner, outer, kw) ==
  [isobj |-> FALSE, obj |-> "none", key |-> StrKey(attr),
   inner |-> inner, outer |-> outer, kwargs |-> kw]

\* one invocation of a member's method
Invocation(o, attr, kw) == [member |-> o, attr |-> attr, kwargs |-> kw]

\* lines 46-49: one mapping serves every member, otherwise there is to be one for each
kwargs_per_member_unchecked(kwargs_list, n) ==
  IF Len(kwargs_list) = 1 THEN Ok([i \in 1..n |-> kwargs_list[1]])
  ELSE Ok(kwargs_list)

kwargs_per_member(kwargs_list, n) ==
  IF Len(kwargs_list) = 1 THEN Ok([i \in 1..n |-> kwargs_list[1]])
  ELSE IF Len(kwargs_list) # n THEN Raise("ArgumentError")
  ELSE Ok(kwargs_list)

\* the first of the first n members whose method raises, 0 when none does
first_raising(attr, ms, n) ==
  IF \E i \in 1..n : Raises(ms[i], attr)
  THEN CHOOSE i \in 1..n : Raises(ms[i], attr) /\ \A j \in 1..(i - 1) : ~Raises(ms[j], attr)
  ELSE 0

\* a dispatch that goes on to the members behind the one whose method raised
sequential_all_invoked(attr, ms, kwargs_list) ==
  LET n == Min({Len(ms), Len(kwargs_list)})
      k == first_raising(attr, ms, n)
  IN  IF k # 0
      THEN [out |-> Throw("MemberError"),
            calls |-> [i \in 1..n |-> Invocation(ms[i], attr, kwargs_list[i])]]
      ELSE [out |-> Value("tuple", [i \in 1..n |-> ResultOf(ms[i], attr)]),
            calls |-> [i \in 1..n |-> Invocation(ms[i], attr, kwargs_list[i])]]

\* lines 67-75: the methods are called in the order of the member list, each with its
\* mapping; the comprehension of line 71 ends with the first call that raises
sequential(attr, ms, kwargs_list) ==
  LET \* line 71: zip(methods, kwargs_list) stops with the shorter of the two
      n == Min({Len(ms), Len(kwargs_list)})
      k == first_raising(attr, ms, n)
  IN  IF k # 0
      THEN [out |-> Throw("MemberError"),
            calls |-> [i \in 1..k |-> Invocation(ms[i], attr, kwargs_list[i])]]
      \* line 72-74: fewer results than members
      ELSE IF n # Len(ms)
      THEN [out |-> Throw("ArgumentError"),
            calls |-> [i \in 1..n |-> Invocation(ms[i], attr, kwargs_list[i])]]
      ELSE [out |-> Value("tuple", [i \in 1..n |-> ResultOf(ms[i], attr)]),
            calls |-> [i \in 1..n |-> Invocation(ms[i], attr, kwargs_list[i])]]

\* lines 40-75, lparallel false: EnsembleWrapper(ens, attr)(inner_list=inner,
\* outer_list=outer, **kw): the value returned and the invocations made, in order
wrapper_call(attr, inner, outer, kw, ms) ==
  LET \* lines 46-75, with the outcome of line 45 at hand
      apply(expanded) ==
        LET per == kwargs_per_member(expanded.value, Len(ms))
        IN  IF expanded.status # "ok" THEN [out |-> Throw(expanded.status), calls |-> <<>>]
            ELSE IF per.status # "ok" THEN [out |-> Throw(per.status), calls |-> <<>>]
            ELSE sequential(attr, ms, per.value)
  IN  CHOOSE r \in {apply(e) : e \in {expandArgumentList(inner, outer, None, "outer", kw)}} :
        TRUE

\* ens.attr(inner_list=inner, outer_list=outer, **kw): the attribute access of lines
\* 193-208, then the call of what it returned; a list is not callable
Call(attr, inner, outer, kw) ==
  /\ Constructed
  /\ LET w == getattr(attr, members)
     IN  IF w.status # "ok" THEN out' = w /\ calls' = <<>>
         ELSE IF w.shape # "wrapper" THEN out' = Throw("TypeError") /\ calls' = <<>>
         ELSE \E r \in {wrapper_call(attr, inner, outer, kw, members)} :
                out' = r.out /\ calls' = r.calls
  /\ last' = Record("call", CallArg(attr, inner, outer, kw), "none", StatusOf(out'))
  /\ raised' = (raised \/ last'.result.status # "ok")
  /\ UNCHANGED <<members, dict, basetype>>
  /\ UNCHANGED par
  /\ UNCHANGED expandVars

\* lines 346-350: ens[name] = m
SetItem(name, m) ==
  /\ Constructed /\ Len(members) < MaxMembers
  /\ IF IdKey(m) # name
     THEN /\ UNCHANGED <<members, dict>>
          /\ last' = Record("setitem", ObjArg(m), "none", Exc("KeyError"))
     ELSE IF ClassOf(m) # basetype
     THEN /\ UNCHANGED <<members, dict>>
          /\ last' = Record("setitem", ObjArg(m), "none", Exc("TypeError"))
     ELSE /\ members' = Append(members, m)
          /\ dict' = SetKey(dict, IdKey(m), m)
          /\ last' = Record("setitem", ObjArg(m), "none",
                            hasMember(ObjArg(m), members', dict', basetype))
  /\ raised' = (raised \/ last'.result.status # "ok")
  /\ out' = NoValue /\ calls' = <<>>
  /\ UNCHANGED basetype
  /\ UNCHANGED par
  /\ UNCHANGED expandVars

\* lines 370-378: ens += m; an object of another class is no Variable and cannot be
\* iterated over
IAdd(m) ==
  /\ Constructed /\ Len(members) < MaxMembers
  /\ IF ClassOf(m) # basetype
     THEN /\ UNCHANGED <<members, dict>>
          /\ last' = Record("iadd", ObjArg(m), "none", Exc("TypeError"))
     ELSE /\ members' = Append(members, m)
          /\ dict' = SetKey(dict, IdKey(m), m)
          /\ last' =
               LET added == hasMember(ObjArg(m), members', dict', basetype)
               IN  Record("iadd", ObjArg(m), "none",
                          IF added.status = "ok" /\ ~added.ret THEN Exc("AssertionError")
                          ELSE added)
  /\ raised' = (raised \/ last'.result.status # "ok")
  /\ out' = NoValue /\ calls' = <<>>
  /\ UNCHANGED basetype
  /\ UNCHANGED par
  /\ UNCHANGED expandVars

\* ---- parallel dispatch: lines 51-66 ----

\* lines 58-59: one unit, apply_method(member, attr, **kwargs), for every member and
\* its mapping, handed to the pool in member order
submitted(ms, kwargs_list) ==
  [i \in 1..Min({Len(ms), Len(kwargs_list)}) |->
     [member |-> ms[i], kwargs |-> kwargs_list[i], state |-> "queued"]]

\* a coordinator that does not wait for the pool
joined_unchecked(units) == TRUE

\* line 61: pool.close(); pool.join() returns when every unit has finished
joined(units) == \A i \in 1..Len(units) : units[i].state = "done"

\* units taken in the order in which they finished
collected_by_completion(units, finished) ==
  [i \in 1..Len(units) |-> IF i <= Len(finished) THEN units[finished[i]] ELSE units[i]]

\* line 63: the handles are asked for their value in the order of submission
collected(units, finished) == units

\* lines 45-59, lparallel true: what the coordinator has done when the units are
\* submitted: an error raised, or the units in the pool
pstart(attr, inner, outer, kw, NP, callback, ms) ==
  LET apply(expanded) ==
        LET per == kwargs_per_member(expanded.value, Len(ms))
        IN  IF expanded.status # "ok" THEN Raise(expanded.status)
            ELSE IF per.status # "ok" THEN Raise(per.status)
            \* line 54
            ELSE IF callback = "bad" THEN Raise("TypeError")
            ELSE Ok(submitted(ms, per.value))
  IN  CHOOSE r \in {apply(e) : e \in {expandArgumentList(inner, outer, None, "outer", kw)}} :
        TRUE

\* ens.attr(lparallel=True, NP=NP, callback=callback, inner_list=inner,
\* outer_list=outer, **kw), up to the submission of the units
PStart(attr, inner, outer, kw, NP, callback) ==
  /\ Constructed /\ par.pc = "idle"
  /\ LET w == getattr(attr, members)
         failed(e) == /\ out' = e
                      /\ par' = [Idle EXCEPT !.pc = "raised", !.attr = attr, !.NP = NP,
                                              !.callback = callback]
     IN  IF w.status # "ok" THEN failed(w)
         ELSE IF w.shape # "wrapper" THEN failed(Throw("TypeError"))
         ELSE \E r \in {pstart(attr, inner, outer, kw, NP, callback, members)} :
                IF r.status # "ok" THEN failed(Throw(r.status))
                ELSE /\ out' = NoValue
                     /\ par' = [Idle EXCEPT !.pc = "running", !.attr = attr, !.NP = NP,
                                             !.callback = callback, !.units = r.value]
  /\ last' = Record("pcall",
                    [isobj |-> FALSE, obj |-> "none", key |-> StrKey(attr), inner |-> inner,
                     outer |-> outer, kwargs |-> kw, NP |-> NP, callback |-> callback],
                    "none",
                    IF par'.pc = "running" THEN [status |-> "pending", ret |-> FALSE]
                    ELSE StatusOf(out'))
  /\ raised' = (raised \/ par'.pc = "raised")
  /\ calls' = <<>>
  /\ UNCHANGED <<members, dict, basetype>>
  /\ UNCHANGED expandVars

\* a free worker of the pool takes the unit that has waited longest
WorkerTake(i) ==
  /\ par.pc = "running"
  /\ i \in 1..Len(par.units) /\ par.units[i].state = "queued"
  /\ \A j \in 1..(i - 1) : par.units[j].state # "queued"
  /\ Cardinality({j \in 1..Len(par.units) : par.units[j].state = "running"}) < par.NP
  /\ par' = [par EXCEPT !.units[i].state = "running"]
  /\ UNCHANGED <<members, dict, basetype, last, raised, out, calls>>
  /\ UNCHANGED expandVars

\* lines 18-21: the worker has run apply_method; the method of the member's copy has
\* been invoked, and the callback is called with what it returned
WorkerFinish(i) ==
  /\ par.pc = "running"
  /\ i \in 1..Len(par.units) /\ par.units[i].state = "running"
  /\ par' = [par EXCEPT !.units[i].state = "done",
                        !.finished = Append(@, i),
                        !.called = IF par.callback = "fn" /\ ~Raises(par.units[i].member, par.attr)
                                   THEN Append(@, i) ELSE @]
  /\ calls' = Append(calls, Invocation(Copy(par.units[i].member), par.attr,
                                       par.units[i].kwargs))
  /\ UNCHANGED <<members, dict, basetype, last, raised, out>>
  /\ UNCHANGED expandVars

\* lines 61-75: the pool is joined, the results are fetched, the member list is
\* replaced by the members that came back; a unit whose method raised raises in get()
PCollect ==
  /\ par.pc = "running" /\ joined(par.units)
  /\ LET got == collected(par.units, par.finished)
         k == first_raising(par.attr, [i \in 1..Len(got) |-> got[i].member], Len(got))
     IN  IF k # 0
         THEN /\ out' = Throw("MemberError")
              /\ par' = [par EXCEPT !.pc = "raised"]
              /\ UNCHANGED members
         ELSE /\ members' = [i \in 1..Len(got) |-> Copy(got[i].member)]
              /\ out' = Value("tuple", [i \in 1..Len(got) |-> ResultOf(got[i].member, par.attr)])
              /\ par' = [par EXCEPT !.pc = "returned"]
  /\ last' = [last EXCEPT !.result = StatusOf(out')]
  /\ raised' = (raised \/ par'.pc = "raised")
  /\ UNCHANGED <<dict, basetype, calls>>
  /\ UNCHANGED expandVars

\* the member lists an ensemble is constructed from
InitLists == UNION {[1..n -> InitObjects] : n \in 0..MaxInit}

\* what is asked of hasMember and removeMember, and the positions inserted at
Keys == {IdKey(o) : o \in Objects}
Args == {ObjArg(o) : o \in Objects} \cup {KeyArg(k) : k \in Keys}
Positions == (0 - 1)..MaxMembers
\* what is asked of del ens[...]: a key, a position from either end, or an object
DelArgs == Args \cup {PosArg(i) : i \in (0 - MaxMembers)..(MaxMembers - 1)}
\* what an ensemble is indexed with: a position, the key of a member or the name of
\* an attribute, and the lists of at most MaxIndex positions and keys
IndexEntries == {PosArg(i) : i \in (0 - 2)..1} \cup {KeyArg(StrKey("A")), KeyArg(StrKey("B"))}
IndexLists == UNION {[1..n -> IndexEntries] : n \in 0..MaxIndex}
IndexArgs ==
  IndexEntries \cup {AttrArg(a) : a \in AttrNames} \cup {ListArg(l) : l \in IndexLists}

\* no ensemble is constructed while expandArgumentList is checked
InitEns ==
  /\ members = <<>>
  /\ dict = <<>>
  /\ basetype = "none"
  /\ last = Record("none", KeyArg(NoneKey), "none", Ret(FALSE))
  /\ raised = FALSE
  /\ out = NoValue
  /\ calls = <<>>
  /\ par = Idle

\* no call of expandArgumentList is made while the ensemble is checked
InitNoCall ==
  /\ kwargs = <<>>
  /\ inner_list = None
  /\ outer_list = None
  /\ expand_list = None
  /\ lproduct = "outer"
  /\ arg_dicts = Pending

\* the state after Ensemble(*ms); a construction that raises leaves no ensemble
Init ==
  /\ InitNoCall
  /\ \E ms \in InitLists, given_bt \in BOOLEAN :
       LET c == construct(ms, given_bt)
       IN  /\ members = c.members
           /\ dict = c.dict
           /\ basetype = c.basetype
           /\ last = Record("init", CtorArg(ms, given_bt), "none",
                            IF c.status = "ok" THEN Ret(TRUE) ELSE Exc(c.status))
           /\ raised = (c.status # "ok")
           /\ out = NoValue
           /\ calls = <<>>
           /\ par = Idle

Next ==
  \/ \E m \in Objects : AddMember(m)
  \/ \E i \in Positions, m \in Objects : InsertMember(i, m)
  \/ \E a \in Args : RemoveMember(a)
  \/ \E k \in Keys, m \in Objects : SetItem(k, m)
  \/ \E m \in Objects : IAdd(m)
  \/ \E a \in DelArgs : DelItem(a)

Spec == Init /\ [][Next]_vars

\* the keyword arguments of a dispatched call: none, or a list for arg1 of up to
\* MaxMembers elements and a list of two for arg2
CallKwargs ==
  {<<>>} \cup {[n \in {"arg1", "arg2"} |->
                 IF n = "arg1" THEN List([j \in 1..k |-> Num(10 + j)])
                 ELSE List(<<Num(21), Num(22)>>)] : k \in 0..MaxMembers}
\* the directives of a dispatched call: none, arg1 inner, arg1 outer, arg1 and arg2 outer
CallDirectives ==
  {<<None, None>>,
   <<Some(<<Name("arg1")>>), None>>,
   <<None, Some(<<Name("arg1")>>)>>,
   <<None, Some(<<Name("arg1"), Name("arg2")>>)>>}
\* the names called: a method of every member, one that raises on a member, a method
\* of some, a plain value
CallAttrs == {"mean", "fail", "mixed", "units"}

\* an indexing or dispatch call has been made
Dispatched == last.op \in {"getitem", "getattr", "call"}

\* an ensemble grown by addMember is indexed or dispatched on; such a call leaves the
\* ensemble as it is, so one of them is made on every ensemble
NextDispatch ==
  \/ \E m \in Objects : ~Dispatched /\ AddMember(m)
  \/ \E a \in IndexArgs : ~Dispatched /\ GetItem(a)
  \/ \E attr \in AttrNames : ~Dispatched /\ GetAttr(attr)
  \/ \E attr \in CallAttrs, d \in CallDirectives, kw \in CallKwargs :
       ~Dispatched /\ Call(attr, d[1], d[2], kw)

SpecDispatch == Init /\ [][NextDispatch]_vars

\* ---- the recaster on its own: lines 131-172 ----

\* lines 131-172: ens._recastList(fs) with one value for every member
Recast(fs) ==
  /\ Constructed
  /\ out' = recastList(fs, members)
  /\ last' = Record("recast", [isobj |-> FALSE, obj |-> "none", key |-> NoneKey, fs |-> fs],
                    "none", StatusOf(out'))
  /\ raised' = (raised \/ last'.result.status # "ok")
  /\ calls' = <<>>
  /\ UNCHANGED <<members, dict, basetype>>
  /\ UNCHANGED par
  /\ UNCHANGED expandVars

\* the values a member may give: a plain value, None, a bound method, Variables named
\* A and B, an Axis, Datasets named A and B
ResultValues ==
  {Plain("a1", "units"), NoneVal, Method("a1", "mean"),
   Var("a1", "var", StrKey("A"), NoneKey), Var("b1", "var", StrKey("B"), NoneKey),
   Axis("time"),
   Dataset("a1", "load", StrKey("A")), Dataset("b1", "load", StrKey("B"))}
\* the result sets of an ensemble with n members
ResultSets(n) == [1..n -> ResultValues]

\* the recaster is applied once to a result set of a constructed ensemble
NextRecast ==
  \E fs \in ResultSets(Len(members)) : last.op = "init" /\ Recast(fs)

SpecRecast == Init /\ [][NextRecast]_vars

\* the names dispatched in parallel: a method of every member, one that raises on a
\* member, a plain value
ParAttrs == {"mean", "fail", "units"}
\* the arguments of a parallel call: none, or arg1 with a value for each of k members
ParCalls ==
  {<<None, None, <<>> >>} \cup
  {<<Some(<<Name("arg1")>>), None,
     [n \in {"arg1"} |-> List([j \in 1..k |-> Num(10 + j)])]>> : k \in 1..MaxMembers}
\* the pool sizes and callbacks: no callback, a function, a value that is not callable
ParOptions == {<<1, "none">>, <<2, "none">>, <<2, "fn">>, <<1, "bad">>}

\* one parallel dispatch on an ensemble grown by addMember, the workers finishing in
\* any order
NextParallel ==
  \/ \E m \in Objects : par.pc = "idle" /\ AddMember(m)
  \/ \E attr \in ParAttrs, c \in ParCalls, o \in ParOptions :
       PStart(attr, c[1], c[2], c[3], o[1], o[2])
  \/ \E i \in 1..MaxMembers : WorkerTake(i)
  \/ \E i \in 1..MaxMembers : WorkerFinish(i)
  \/ PCollect

SpecParallel == Init /\ [][NextParallel]_vars

---------------------------------------------------------------------------
(* The calls of expandArgumentList that are checked *)

ArgNames == <<"arg1", "arg2", "arg3">>
ArgNameSet == Range(ArgNames)
Idx(name) == CHOOSE k \in 1..Len(ArgNames) : ArgNames[k] = name

\* the j-th element of the list given for a name: distinct for every name and position
Elem(name, j) == Num(10 * Idx(name) + j)
ListOf(name, n) == List([j \in 1..n |-> Elem(name, j)])
StrOf(name) == Str(<<Chr(10 * Idx(name) + 1), Chr(10 * Idx(name) + 2)>>)

\* what a keyword may be bound to: a number, a string, or a list of 0..MaxLen elements
ArgValues(name) == {Num(Idx(name)), StrOf(name)} \cup {ListOf(name, n) : n \in 0..MaxLen}

\* the keyword dicts: any subset of the names, each bound to one of its values
KwargsSet ==
  UNION {{kw \in [S -> UNION {ArgValues(n) : n \in S}] : \A n \in S : kw[n] \in ArgValues(n)}
           : S \in SUBSET ArgNameSet}

InnerEntries == {Name(n) : n \in ArgNameSet}
OuterEntries == InnerEntries \cup {Group(<<"arg1", "arg2">>), Other}

\* the lists of at most n distinct entries
ListsOver(entries, n) ==
  UNION {{l \in [1..m -> entries] : \A i, j \in 1..m : i # j => l[i] # l[j]} : m \in 0..n}

\* inner_list and outer_list: None or a list, at most MaxDir entries in all
Directives ==
  {d \in ({None} \cup {Some(l) : l \in ListsOver(InnerEntries, MaxDir)})
           \X ({None} \cup {Some(l) : l \in ListsOver(OuterEntries, MaxDir)}) :
     Len(d[1].items) + Len(d[2].items) <= MaxDir}

\* the legacy calls: expand_list with a product mode
LegacyLists == {Some(l) : l \in ListsOver(OuterEntries, 1)}
LegacyModes == {"inner", "outer", "other"}

InitExpand ==
  /\ kwargs \in KwargsSet
  /\ \/ /\ expand_list = None
        /\ lproduct = "outer"
        /\ \E d \in Directives : inner_list = d[1] /\ outer_list = d[2]
     \/ /\ expand_list \in LegacyLists
        /\ lproduct \in LegacyModes
        /\ inner_list \in {None, Some(<<Name("arg3")>>)}
        /\ outer_list = None
  /\ arg_dicts = Pending
  /\ InitEns

\* the call returns or raises
Expand ==
  /\ arg_dicts = Pending
  /\ arg_dicts' = expandArgumentList(inner_list, outer_list, expand_list, lproduct, kwargs)
  /\ UNCHANGED <<kwargs, inner_list, outer_list, expand_list, lproduct>>
  /\ UNCHANGED ensVars

NextExpand == Expand

SpecExpand == InitExpand /\ [][NextExpand]_vars

\* ---- BatchLoad: expand.py lines 149-183 ----

\* what load_fct returns for a mapping: a dataset loaded with these arguments
Loaded(m) == [kind |-> "dataset", loaded |-> m]
\* the name of a loaded dataset: the load function names it after its argument arg1
LoadName(m) == IF "arg1" \in DOMAIN m THEN StrKey(ToString(m["arg1"])) ELSE StrKey("dataset")

\* line 164: no expansion is asked for when all three arguments are None
no_expansion(load_list, inner, outer) == load_list.isNone /\ inner.isNone /\ outer.isNone

\* line 169: lensemble, when it is None, is whether the ensemble has been given a name
make_ensemble(lensemble, named) == IF lensemble = "None" THEN named ELSE lensemble = "True"

\* a loop that loads for the last mapping first
batch_loads_reversed(kwargs_list) ==
  [k \in 1..Len(kwargs_list) |-> kwargs_list[Len(kwargs_list) + 1 - k]]

\* line 175-177: the mappings load_fct is called with, in the order of the calls
batch_loads(kwargs_list) == kwargs_list

\* line 181 and base.py 90-129: Ensemble(members=datasets, ..., basetype='Dataset');
\* the list given by keyword becomes the member list, and every member is entered in
\* the index under its name
batch_ensemble(ms) ==
  LET key(i) == LoadName(ms[i].loaded)
      taken(i) == key(i) \in ReservedKeys \/ \E j \in 1..(i - 1) : key(j) = key(i)
  IN  IF \E i \in 1..Len(ms) : taken(i) THEN Throw("AttributeError")
      ELSE NewEnsemble(ms, [k \in {key(i) : i \in 1..Len(ms)} |->
                                ms[CHOOSE i \in 1..Len(ms) : key(i) = k]], "Dataset", "name")

\* lines 159-183: the value returned and the calls of load_fct, in order
batch_load(load_list, lprod, inner, outer, lensemble, named, kw) ==
  LET one(m) == Invocation("load_fct", "__call__", m)
      apply(expanded) ==
        LET ms == batch_loads(expanded.value)
            datasets == [k \in 1..Len(ms) |-> Loaded(ms[k])]
        IN  IF expanded.status # "ok" THEN [out |-> Throw(expanded.status), calls |-> <<>>]
            ELSE [out |-> IF make_ensemble(lensemble, named) THEN batch_ensemble(datasets)
                          ELSE Value("list", datasets),
                  calls |-> [k \in 1..Len(ms) |-> one(ms[k])]]
  IN  IF no_expansion(load_list, inner, outer)
      THEN [out |-> Value("dataset", <<Loaded(kw)>>), calls |-> <<one(kw)>>]
      ELSE CHOOSE r \in {apply(e) : e \in {expandArgumentList(inner, outer, load_list, lprod, kw)}} :
             TRUE

\* the batch loader is called with the arguments drawn at the start
BatchLoad(lensemble, named) ==
  /\ last.op = "none"
  /\ \E r \in {batch_load(expand_list, lproduct, inner_list, outer_list, lensemble, named,
                           kwargs)} :
       out' = r.out /\ calls' = r.calls
  /\ last' = Record("batch", [isobj |-> FALSE, obj |-> "none", key |-> NoneKey,
                              lensemble |-> lensemble, named |-> named],
                    "none", StatusOf(out'))
  /\ raised' = (raised \/ last'.result.status # "ok")
  /\ UNCHANGED <<members, dict, basetype>>
  /\ UNCHANGED par
  /\ UNCHANGED expandVars

\* load_list with lproduct, inner_list and outer_list of a batch load: none at all, an
\* empty list, one name, two names as inner and as outer product, inner and outer
BatchDirectives ==
  {<<None, "outer", None, None>>,
   <<Some(<<>>), "outer", None, None>>,
   <<Some(<<Name("arg1")>>), "outer", None, None>>,
   <<Some(<<Name("arg1"), Name("arg2")>>), "inner", None, None>>,
   <<Some(<<Name("arg1"), Name("arg2")>>), "outer", None, None>>,
   <<None, "outer", Some(<<Name("arg1"), Name("arg2")>>), None>>,
   <<None, "outer", None, Some(<<Name("arg2"), Name("arg1")>>)>>,
   <<None, "outer", Some(<<Name("arg1")>>), Some(<<Name("arg2")>>)>>}
\* lensemble and whether ens_name is given
BatchOptions == {<<"None", FALSE>>, <<"None", TRUE>>, <<"True", FALSE>>, <<"False", TRUE>>}

InitBatch ==
  /\ kwargs \in KwargsSet
  /\ \E d \in BatchDirectives :
       expand_list = d[1] /\ lproduct = d[2] /\ inner_list = d[3] /\ outer_list = d[4]
  /\ arg_dicts = Pending
  /\ InitEns

NextBatch == \E o \in BatchOptions : BatchLoad(o[1], o[2])

SpecBatch == InitBatch /\ [][NextBatch]_vars

---------------------------------------------------------------------------
(* What a call asks for, read off its arguments *)

Done == arg_dicts.status # "pending"
Returned == arg_dicts.status = "ok"

\* the lists are given in one way only: inner_list/outer_list, or expand_list with a mode
WellFormedCall ==
  \/ expand_list.isNone
  \/ inner_list.isNone /\ outer_list.isNone /\ lproduct \in {"inner", "outer"}

\* the inner and the outer list the call names, through either way of giving them
CallInner ==
  IF expand_list.isNone THEN inner_list.items
  ELSE IF lproduct = "inner" THEN expand_list.items ELSE <<>>
CallOuter ==
  IF expand_list.isNone THEN outer_list.items
  ELSE IF lproduct = "outer" THEN expand_list.items ELSE <<>>

\* no list names anything
NoDirectives ==
  /\ inner_list.isNone \/ inner_list.items = <<>>
  /\ outer_list.isNone \/ outer_list.items = <<>>
  /\ expand_list.isNone \/ expand_list.items = <<>>

\* every entry of l is a name bound to a list
NamesOfLists(l) ==
  \A i \in 1..Len(l) :
    /\ l[i].kind = "str"
    /\ l[i].names[1] \in DOMAIN kwargs
    /\ kwargs[l[i].names[1]].kind = "list"

PlainNames(l) == {l[i].names[1] : i \in {j \in 1..Len(l) : l[j].kind = "str"}}
GroupNames(l) == UNION {Range(l[i].names) : i \in {j \in 1..Len(l) : l[j].kind = "tuple"}}
\* the names a call designates for expansion
Designated == PlainNames(CallInner) \cup PlainNames(CallOuter) \cup GroupNames(CallOuter)

LenAt(l, i) == Len(kwargs[l[i].names[1]].items)

RECURSIVE ProdFrom(_, _)
\* the product of the lengths of the lists named by l[i], l[i+1], ...
ProdFrom(l, i) == IF i > Len(l) THEN 1 ELSE LenAt(l, i) * ProdFrom(l, i + 1)

\* the position in the list of l[i] in combination number n (from 0) of the nested
\* loops over l, the loop of l[1] outermost
Digit(l, i, n) == (n \div ProdFrom(l, i + 1)) % LenAt(l, i)

\* the keywords outside S keep their value in mapping m
KeepsOthers(m, S) ==
  /\ DOMAIN m = DOMAIN kwargs
  /\ \A k \in (DOMAIN kwargs) \ S : m[k] = kwargs[k]

PlainOuterCall ==
  /\ WellFormedCall
  /\ CallInner = <<>>
  /\ CallOuter # <<>>
  /\ NamesOfLists(CallOuter)

\* C1: a call with plain outer names only, bound to lists of lengths L1..Ln, returns
\* L1*...*Ln mappings; mapping n holds combination n of the nested loops in which the
\* first name varies slowest, and every other keyword keeps its value.
C1_OuterProductOrder ==
  (Done /\ PlainOuterCall) =>
    /\ Returned
    /\ Len(arg_dicts.value) = ProdFrom(CallOuter, 1)
    /\ \A n \in 0..(Len(arg_dicts.value) - 1) :
         /\ KeepsOthers(arg_dicts.value[n + 1], PlainNames(CallOuter))
         /\ \A i \in 1..Len(CallOuter) :
              arg_dicts.value[n + 1][CallOuter[i].names[1]]
                = kwargs[CallOuter[i].names[1]].items[Digit(CallOuter, i, n) + 1]

\* two outer lists of different lengths above one, and a keyword left alone
C1_Witness ==
  /\ Done /\ PlainOuterCall /\ Returned
  /\ Len(CallOuter) >= 2
  /\ LenAt(CallOuter, 1) >= 2 /\ LenAt(CallOuter, 2) >= 2
  /\ LenAt(CallOuter, 1) # LenAt(CallOuter, 2)
  /\ (DOMAIN kwargs) \ PlainNames(CallOuter) # {}
  /\ Len(arg_dicts.value) >= 6

InnerOnlyCall ==
  /\ WellFormedCall
  /\ CallOuter = <<>>
  /\ CallInner # <<>>
  /\ NamesOfLists(CallInner)

\* the lengths, other than one, of the lists named by l
LongLengths(l) == {LenAt(l, i) : i \in 1..Len(l)} \ {1}
\* the common length of lists that are each of length one or of one other length
CommonLength(l) == IF LongLengths(l) = {} THEN 1 ELSE CHOOSE n \in LongLengths(l) : TRUE

\* C2: a call with inner names only, bound to lists each of length 1 or of a common
\* length L, in any order, returns L mappings; in mapping n a list of length L gives
\* its n-th element and a list of length one its only element.
C2_InnerBroadcastAnyOrder ==
  (Done /\ InnerOnlyCall /\ Cardinality(LongLengths(CallInner)) <= 1) =>
    /\ Returned
    /\ Len(arg_dicts.value) = CommonLength(CallInner)
    /\ \A n \in 1..Len(arg_dicts.value) : \A i \in 1..Len(CallInner) :
         arg_dicts.value[n][CallInner[i].names[1]]
           = kwargs[CallInner[i].names[1]].items[IF LenAt(CallInner, i) = 1 THEN 1 ELSE n]

ParallelOuterCall ==
  /\ WellFormedCall
  /\ CallInner = <<>>
  /\ Len(CallOuter) = 2
  /\ CallOuter[1].kind = "tuple" /\ Len(CallOuter[1].names) = 2
  /\ CallOuter[2].kind = "str"
  /\ CallOuter[2].names[1] \notin Range(CallOuter[1].names)
  /\ \A k \in Range(CallOuter[1].names) \cup {CallOuter[2].names[1]} :
       k \in DOMAIN kwargs /\ kwargs[k].kind = "list"
  /\ Len(kwargs[CallOuter[1].names[1]].items) = Len(kwargs[CallOuter[1].names[2]].items)

\* C3: outer_list = [(a, b), c] with a and b of length L and c of length M returns L*M
\* mappings; mapping i*M + j holds a[i], b[i] and c[j], and no key but the keywords'.
C3_ParallelGroupProduct ==
  (Done /\ ParallelOuterCall) =>
    LET a == CallOuter[1].names[1]
        b == CallOuter[1].names[2]
        c == CallOuter[2].names[1]
        L == Len(kwargs[a].items)
        M == Len(kwargs[c].items)
    IN  /\ Returned
        /\ Len(arg_dicts.value) = L * M
        /\ \A i \in 0..(L - 1) : \A j \in 0..(M - 1) :
             /\ KeepsOthers(arg_dicts.value[i * M + j + 1], {a, b, c})
             /\ arg_dicts.value[i * M + j + 1][a] = kwargs[a].items[i + 1]
             /\ arg_dicts.value[i * M + j + 1][b] = kwargs[b].items[i + 1]
             /\ arg_dicts.value[i * M + j + 1][c] = kwargs[c].items[j + 1]

OuterInnerCall ==
  /\ WellFormedCall
  /\ CallOuter # <<>> /\ NamesOfLists(CallOuter)
  /\ CallInner # <<>> /\ NamesOfLists(CallInner)
  /\ PlainNames(CallOuter) \cap PlainNames(CallInner) = {}
  /\ \A i \in 1..Len(CallInner) : LenAt(CallInner, i) = ProdFrom(CallOuter, 1)

\* C4: with plain outer names whose lengths multiply to P and, apart from them, inner
\* names bound to lists of length P, the call returns P mappings: mapping n holds
\* combination n of the outer names and the n-th element of every inner list.
C4_InnerZipsWithOuter ==
  (Done /\ OuterInnerCall) =>
    /\ Returned
    /\ Len(arg_dicts.value) = ProdFrom(CallOuter, 1)
    /\ \A n \in 0..(Len(arg_dicts.value) - 1) :
         /\ KeepsOthers(arg_dicts.value[n + 1], PlainNames(CallOuter) \cup PlainNames(CallInner))
         /\ \A i \in 1..Len(CallOuter) :
              arg_dicts.value[n + 1][CallOuter[i].names[1]]
                = kwargs[CallOuter[i].names[1]].items[Digit(CallOuter, i, n) + 1]
         /\ \A i \in 1..Len(CallInner) :
              arg_dicts.value[n + 1][CallInner[i].names[1]]
                = kwargs[CallInner[i].names[1]].items[n + 1]

\* two outer lists longer than one, zipped with an inner list
C4_Witness ==
  /\ Done /\ OuterInnerCall /\ Returned
  /\ Len(CallOuter) = 2
  /\ LenAt(CallOuter, 1) >= 2 /\ LenAt(CallOuter, 2) >= 2
  /\ Len(arg_dicts.value) = LenAt(CallOuter, 1) * LenAt(CallOuter, 2)

\* C5: in every accepted call with a directive, each mapping has the keywords' key
\* set, a keyword not designated keeps its value, and a designated keyword (also one
\* inside a parallel group) holds one element of its sequence.
C5_EveryDesignatedKeyExpanded ==
  (Done /\ Returned /\ ~NoDirectives) =>
    \A n \in 1..Len(arg_dicts.value) :
      /\ KeepsOthers(arg_dicts.value[n], Designated)
      /\ \A k \in Designated \cap DOMAIN kwargs :
           arg_dicts.value[n][k] \in Range(kwargs[k].items)

\* C6: with no inner names, no outer names and no legacy list the call returns the
\* keyword arguments as its only mapping, lists left whole.
C6_NoDirectiveIdentity ==
  (Done /\ NoDirectives) => arg_dicts = Ok(<<kwargs>>)

\* an empty list given as a directive, and a keyword bound to a list
C6_Witness ==
  /\ Done /\ NoDirectives
  /\ ~outer_list.isNone
  /\ \E k \in DOMAIN kwargs : kwargs[k].kind = "list" /\ Len(kwargs[k].items) >= 2
  /\ Len(arg_dicts.value) = 1

\* nothing else is wrong with the call: every entry is a name or a group of names,
\* every name is a keyword and is designated once, and the members of a group that
\* have a length have the same
OtherwiseInOrder ==
  /\ WellFormedCall
  /\ \A i \in 1..Len(CallOuter) : CallOuter[i].kind \in {"str", "tuple"}
  /\ Designated \subseteq DOMAIN kwargs
  /\ PlainNames(CallInner) \cap PlainNames(CallOuter) = {}
  /\ PlainNames(CallInner) \cap GroupNames(CallOuter) = {}
  /\ PlainNames(CallOuter) \cap GroupNames(CallOuter) = {}
  /\ \A i \in 1..Len(CallOuter) : \A a, b \in Range(CallOuter[i].names) :
       (CallOuter[i].kind = "tuple" /\ kwargs[a].kind # "num" /\ kwargs[b].kind # "num")
         => Len(kwargs[a].items) = Len(kwargs[b].items)

\* C7: a designated name (inner, plain outer, or member of a parallel group) bound to
\* something that is no list or tuple, a string or a number, makes the call raise a
\* type error and return no mappings.
C7_NonSequenceIsTypeError ==
  (/\ Done
   /\ OtherwiseInOrder
   /\ \E k \in Designated : kwargs[k].kind \notin {"list", "tuple"})
  => arg_dicts.status = "TypeError"

\* a parallel group whose lists differ in length
GroupLengthsDiffer ==
  \E i \in 1..Len(CallOuter) :
    /\ CallOuter[i].kind = "tuple"
    /\ \E a, b \in Range(CallOuter[i].names) :
         /\ a \in DOMAIN kwargs /\ b \in DOMAIN kwargs
         /\ kwargs[a].kind = "list" /\ kwargs[b].kind = "list"
         /\ Len(kwargs[a].items) # Len(kwargs[b].items)

\* inner lists of two lengths, neither of them one
InnerLengthsDiffer ==
  \E i, j \in 1..Len(CallInner) :
    /\ NamesOfLists(<<CallInner[i], CallInner[j]>>)
    /\ LenAt(CallInner, i) # 1 /\ LenAt(CallInner, j) # 1
    /\ LenAt(CallInner, i) # LenAt(CallInner, j)

\* C8: the call raises, and returns nothing, when the lists of a parallel group differ
\* in length and when the inner lists have two lengths other than one.
C8_LengthMismatchRaises ==
  (Done /\ (GroupLengthsDiffer \/ InnerLengthsDiffer)) =>
    /\ arg_dicts.status \notin {"ok", "pending"}
    /\ arg_dicts.value = <<>>

\* a group of a shorter and a longer list, in a call that is otherwise in order
C8_Witness ==
  /\ Done /\ WellFormedCall /\ GroupLengthsDiffer
  /\ CallInner = <<>> /\ Len(CallOuter) = 1
  /\ arg_dicts.status = "ArgumentError"

---------------------------------------------------------------------------
(* The Ensemble claims *)

\* hasMember asked of the ensemble as it is now
Has(a) == hasMember(a, members, dict, basetype)

\* C9: right after addMember(m), hasMember(m) and hasMember(id-key of m) return True;
\* right after removeMember(k) of a key k that was there, hasMember(k) and hasMember
\* of the member that had the key return False; none of these calls raises.
C9_AddRemoveIdentity ==
  /\ (/\ last.op = "addMember"
      /\ ClassOf(last.arg.obj) = basetype
      /\ IdKey(last.arg.obj).str)
     => /\ last.result = Ret(TRUE)
        /\ Has(ObjArg(last.arg.obj)) = Ret(TRUE)
        /\ Has(KeyArg(IdKey(last.arg.obj))) = Ret(TRUE)
  /\ (/\ last.op = "removeMember"
      /\ ~last.arg.isobj /\ last.arg.key.str
      /\ last.had # "none")
     => /\ last.result.status = "ok"
        /\ Has(last.arg) = Ret(FALSE)
        /\ Has(ObjArg(last.had)) = Ret(FALSE)

\* C10: as long as no call has raised, the id-keys of the members in the list are
\* pairwise distinct strings, and the name index gives each member back for its key.
C10_UniqueKeysIndexed ==
  (Constructed /\ ~raised) =>
    /\ \A i, j \in 1..Len(members) : i # j => IdKey(members[i]) # IdKey(members[j])
    /\ \A i \in 1..Len(members) :
         /\ IdKey(members[i]).str
         /\ IdKey(members[i]) \in DOMAIN dict
         /\ dict[IdKey(members[i])] = members[i]

\* the ensemble has just been constructed, or its construction has just raised
JustConstructed == last.op = "init"
\* the members of the list Ensemble(...) was given
Given(i) == last.arg.members[i]
GivenIdx == 1..Len(last.arg.members)

\* C11: an Ensemble constructed from a list in which two members have the same id-key,
\* or in which a member's id-key is not a string, raises and there is no ensemble.
C11_DuplicateOrNonStringKeyRaises ==
  (/\ JustConstructed
   /\ \/ \E i, j \in GivenIdx : i # j /\ IdKey(Given(i)) = IdKey(Given(j))
      \/ \E i \in GivenIdx : ~IdKey(Given(i)).str)
  => /\ ~Constructed
     /\ last.result.status # "ok"
     /\ members = <<>> /\ dict = <<>>

\* two members of one class and one name, strings both: the second one is refused
C11_Witness ==
  /\ JustConstructed
  /\ Len(last.arg.members) = 2
  /\ Given(1) # Given(2) /\ IdKey(Given(1)) = IdKey(Given(2))
  /\ IdKey(Given(1)).str /\ IdKey(Given(1)) \notin ReservedKeys
  /\ ClassOf(Given(1)) = "Base" /\ ClassOf(Given(2)) = "Base"
  /\ last.result.status = "AttributeError"

\* the names of the attributes of an Ensemble: the data attributes of lines 84-88 and
\* the methods and properties defined on the class
DataAttributes == {"members", "basetype", "idkey", "ens_name", "ens_title"}
MethodAttributes ==
  {"hasMember", "addMember", "insertMember", "removeMember", "size", "prettyPrint"}

\* C12: an Ensemble constructed from a list holding a member whose id-key is the name
\* of a data attribute or of a method or property of the ensemble raises.
C12_ReservedNameRaises ==
  (/\ JustConstructed
   /\ \E i \in GivenIdx :
        IdKey(Given(i)).str /\ IdKey(Given(i)).v \in DataAttributes \cup MethodAttributes)
  => /\ ~Constructed
     /\ last.result.status # "ok"

\* the argument of a call names nothing the ensemble holds: a member-typed object that
\* is not in the member list, or a string that is the id-key of no member
Absent(a) ==
  IF a.isobj THEN ClassOf(a.obj) = basetype /\ a.obj \notin Range(members)
  ELSE a.key.str /\ \A i \in 1..Len(members) : IdKey(members[i]) # a.key

\* C13: removeMember of an object or key that is not in the ensemble does not raise,
\* leaves the member list and the name index as they were, and returns False.
C13_RemoveAbsentReturnsFailure ==
  [][(last'.op = "removeMember" /\ Absent(last'.arg))
       => /\ last'.result = Ret(FALSE)
          /\ members' = members /\ dict' = dict]_vars

\* position i of a Python list of length n, counted from the end when negative, as a
\* position 1..n; 0 when there is no such position
PyPos(i, n) == IF 0 <= i /\ i < n THEN i + 1 ELSE IF i < 0 /\ 0 - n <= i THEN n + i + 1 ELSE 0

\* a sequence without its j-th element
Without(ms, j) == SubSeq(ms, 1, j - 1) \o SubSeq(ms, j + 1, Len(ms))

\* C14: del ens[i] for a position i of the member list removes the member at that
\* position: the call does not raise, the list is one shorter, that member is no
\* longer contained, and the other members keep their order.  In particular del
\* ens[-1] right after a member was appended removes that member.
C14_DeleteByPosition ==
  [][(/\ last'.op = "delitem" /\ IsPos(last'.arg)
      /\ PyPos(last'.arg.pos, Len(members)) # 0)
       => /\ last'.result.status = "ok"
          /\ Len(members') = Len(members) - 1
          /\ members' = Without(members, PyPos(last'.arg.pos, Len(members)))]_vars

---------------------------------------------------------------------------
(* The indexing and dispatch claims *)

\* an entry of an index list names a member of the ensemble as it is: a position of
\* the member list, or the id-key of a member
ValidEntry(e) ==
  IF IsPos(e) THEN PyPos(e.pos, Len(members)) # 0
  ELSE e.key.str /\ \E i \in 1..Len(members) : IdKey(members[i]) = e.key
\* the member the entry selects
Selected(e) ==
  IF IsPos(e) THEN members[PyPos(e.pos, Len(members))]
  ELSE members[Min({i \in 1..Len(members) : IdKey(members[i]) = e.key})]
\* a list of valid entries that select different members
ValidIndexList(l) ==
  /\ \A k \in 1..Len(l) : ValidEntry(l[k])
  /\ \A j, k \in 1..Len(l) : j # k => Selected(l[j]) # Selected(l[k])

\* C15: indexing with a list of distinct valid positions or id-key strings returns a
\* new Ensemble whose k-th member is the member the k-th entry selects, with the
\* basetype and idkey of the source, and leaves the source's member list and name
\* index unchanged.
C15_ListIndexSelects ==
  [][(/\ last'.op = "getitem" /\ IsList(last'.arg)
      /\ ValidIndexList(last'.arg.list))
       => /\ out'.status = "ok" /\ out'.shape = "ensemble"
          /\ out'.items = [k \in 1..Len(last'.arg.list) |-> Selected(last'.arg.list[k])]
          /\ out'.basetype = basetype /\ out'.idkey = "name"
          /\ members' = members /\ dict' = dict]_vars

\* the attribute asked for by the last call, and what the members hold for it now
AskedAttr == last.arg.key.v
Held == attrs_of(members, AskedAttr)
\* a plain value or None: not callable, not a Variable or Dataset
IsPlain(v) == v.kind \in {"plain", "none"}
HeldPlain ==
  /\ \A i \in 1..Len(Held) : IsPlain(Held[i])
  /\ \E i \in 1..Len(Held) : Held[i].kind # "none"
HeldMixed ==
  /\ \A i \in 1..Len(Held) : Held[i].kind # "missing"
  /\ \E i \in 1..Len(Held) : Callable(Held[i])
  /\ \E i \in 1..Len(Held) : ~Callable(Held[i])

\* C16: ens.attr for an attribute that is a plain value on every member returns the
\* sequence of the members' values in member order, as long as the member list, and
\* leaves the ensemble as it is.
C16_PlainAttributeList ==
  [][(last'.op = "getattr" /\ HeldPlain')
       => /\ out'.status = "ok" /\ out'.shape = "list"
          /\ Len(out'.items) = Len(members)
          /\ \A i \in 1..Len(members) : out'.items[i] = GetAttrOf(members[i], AskedAttr')
          /\ calls' = <<>>
          /\ members' = members /\ dict' = dict]_vars

\* two members with different values: the list holds them in member order
C16_Witness ==
  /\ last.op = "getattr" /\ HeldPlain
  /\ Len(members) >= 2 /\ members[1] # members[2]
  /\ out.shape = "list" /\ out.items[1] # out.items[2]

\* C17: ens.attr for an attribute that is callable on one member and not callable on
\* another raises EnsembleError carrying the attribute name, whether the attribute
\* is only read or called at once; no method is invoked and the ensemble is unchanged.
C17_MixedCallabilityRaises ==
  [][(last'.op \in {"getattr", "call"} /\ HeldMixed')
       => /\ out'.status = "EnsembleError" /\ out'.items = <<AskedAttr'>>
          /\ calls' = <<>>
          /\ members' = members /\ dict' = dict]_vars

\* a call of a name that is a method of one member and a value of another
C17_Witness ==
  /\ last.op = "call" /\ HeldMixed
  /\ out.status = "EnsembleError" /\ calls = <<>>

\* what the members' methods return for the call made
Returned_by(i) == ResultOf(members[i], AskedAttr)
\* every member returns a new Variable or Dataset, and no two of them have one name
ReturnsDistinctObjects ==
  /\ members # <<>>
  /\ \A i \in 1..Len(members) :
       /\ GetAttrOf(members[i], AskedAttr).kind = "method"
       /\ IsVarOrDataset(Returned_by(i)) /\ Returned_by(i).name.str
  /\ \A i, j \in 1..Len(members) : i # j => Returned_by(i).name # Returned_by(j).name

\* C18: calling a method that returns a new, differently named Variable or Dataset
\* for every member yields a new Ensemble with as many members as the source, in
\* member order, indexed by those names.
C18_CallRecastsToEnsemble ==
  (last.op = "call" /\ ReturnsDistinctObjects /\ out.status = "ok")
  => /\ out.shape = "ensemble"
     /\ out.items = [i \in 1..Len(members) |-> Returned_by(i)]
     /\ \A i \in 1..Len(members) : out.index[Returned_by(i).name] = Returned_by(i)

\* the last call read an attribute by name: ens.attr, or ens['attr'] with a string
\* that is no member's key
ReadByName ==
  \/ last.op = "getattr"
  \/ /\ last.op = "getitem" /\ ~IsPos(last.arg) /\ ~IsList(last.arg)
     /\ AskedAttr \in AttrNames
HeldNotCallable ==
  \A i \in 1..Len(Held) : Held[i].kind # "missing" /\ ~Callable(Held[i])

\* C19: reading an attribute that is callable on no member returns what _recastList
\* returns for the members' values, by attribute access and by string key alike; when
\* every member holds None the result is a single None.
C19_NonCallableIsRecast ==
  (ReadByName /\ HeldNotCallable)
  => /\ out = recastList(Held, members)
     /\ (\A i \in 1..Len(Held) : Held[i].kind = "none") => out.shape = "none"

\* the last call invoked the bound dispatcher: the name is a method of every member
DispatcherInvoked ==
  /\ last.op = "call" /\ members # <<>>
  /\ \A i \in 1..Len(Held) : Callable(Held[i])
\* no member's method raises
NoneRaises == \A i \in 1..Len(members) : ~Raises(members[i], AskedAttr)
\* the mappings the keyword arguments of the last call expand to
Expansion == expandArgumentList(last.arg.inner, last.arg.outer, None, "outer", last.arg.kwargs)

\* C20: when the bound dispatcher of an ensemble with N members is invoked and the
\* keyword arguments expand to one mapping, every member's method is called with it;
\* when they expand to N mappings, member i is called with mapping i; for any other
\* number ArgumentError is raised and no method has been invoked. (The methods return;
\* C25 is about one that raises.)
C20_ArgumentsPerMember ==
  (DispatcherInvoked /\ Expansion.status = "ok" /\ NoneRaises)
  => LET kwargs_list == Expansion.value
         N == Len(members)
     IN  IF Len(kwargs_list) = 1
         THEN /\ out.status = "ok"
              /\ calls = [i \in 1..N |-> Invocation(members[i], AskedAttr, kwargs_list[1])]
         ELSE IF Len(kwargs_list) = N
         THEN /\ out.status = "ok"
              /\ calls = [i \in 1..N |-> Invocation(members[i], AskedAttr, kwargs_list[i])]
         ELSE /\ out.status = "ArgumentError"
              /\ calls = <<>>

\* two members called with a mapping each, the first and the second of the expansion
C20_Witness ==
  /\ DispatcherInvoked /\ Expansion.status = "ok"
  /\ Len(members) = 2 /\ Len(Expansion.value) = 2
  /\ out.status = "ok" /\ Len(calls) = 2
  /\ calls[1].kwargs = Expansion.value[1] /\ calls[2].kwargs = Expansion.value[2]
  /\ calls[1].kwargs # calls[2].kwargs

\* the last call dispatched a method sequentially, with a mapping for every member
SequentialDispatch ==
  /\ DispatcherInvoked /\ Expansion.status = "ok"
  /\ Len(Expansion.value) \in {1, Len(members)}
\* member k's method raises and no method of a member before it does
FirstToRaise(k) ==
  /\ k \in 1..Len(members) /\ Raises(members[k], AskedAttr)
  /\ \A j \in 1..(k - 1) : ~Raises(members[j], AskedAttr)

\* C25: sequential dispatch invokes the members' methods in member-list order, each
\* at most once; when the method of member k raises, the dispatch raises that error,
\* no method of a later member has been invoked and no partial result is returned.
C25_SequentialStopsAtFirstError ==
  SequentialDispatch
  => /\ Len(calls) <= Len(members)
     /\ \A i \in 1..Len(calls) : calls[i].member = members[i] /\ calls[i].attr = AskedAttr
     /\ NoneRaises => (Len(calls) = Len(members) /\ out.status = "ok")
     /\ \A k \in 1..Len(members) :
          FirstToRaise(k) => (Len(calls) = k /\ out = Throw("MemberError"))

\* the method of a member that is not the last one raised
C25_Witness ==
  /\ SequentialDispatch
  /\ \E k \in 1..(Len(members) - 1) : FirstToRaise(k) /\ Len(calls) = k
  /\ out.status = "MemberError"

\* the parallel dispatch has returned
ParReturned == par.pc = "returned"
\* the units finished in another order than the one in which they were submitted
OutOfOrder == \E i \in 1..(Len(par.finished) - 1) : par.finished[i] > par.finished[i + 1]

\* C21: in parallel dispatch the units are submitted one for each member in member
\* order, and in whatever order they finish, the i-th result returned and the i-th
\* entry of the updated member list are those of the unit submitted for member i.
C21_ParallelKeepsMemberOrder ==
  /\ par.pc = "running"
     => /\ Len(par.units) = Len(members)
        /\ \A i \in 1..Len(members) : par.units[i].member = members[i]
  /\ ParReturned
     => /\ Len(out.items) = Len(par.units) /\ Len(members) = Len(par.units)
        /\ \A i \in 1..Len(par.units) :
             /\ out.items[i] = ResultOf(par.units[i].member, par.attr)
             /\ members[i] = Copy(par.units[i].member)

\* three units, the second finished first, and the dispatch has returned
C21_Witness ==
  /\ ParReturned /\ Len(par.units) = 3 /\ OutOfOrder
  /\ par.finished[1] = 2
  /\ members[1] = Copy(par.units[1].member)

\* a submitted unit has not finished yet
Unfinished == \E i \in 1..Len(par.units) : par.units[i].state # "done"
\* a step of unit i: it stays as it is, is taken by a worker, or finishes
UnitStep(i) ==
  \/ par'.units[i] = par.units[i]
  \/ /\ par.units[i].state = "queued"
     /\ par'.units[i] = [par.units[i] EXCEPT !.state = "running"]
  \/ /\ par.units[i].state = "running"
     /\ par'.units[i] = [par.units[i] EXCEPT !.state = "done"]

\* C22: while a submitted unit has not finished, the coordinator neither returns nor
\* raises, and the member list, the name index and the value returned stay as they
\* are; no unit is dropped or put back: each goes from queued to running to done.
C22_CoordinatorWaitsForAllUnits ==
  [][par.pc = "running"
     => /\ Unfinished => /\ par'.pc = "running"
                         /\ members' = members /\ dict' = dict /\ basetype' = basetype
                         /\ out' = out
        /\ Len(par'.units) = Len(par.units)
        /\ \A i \in 1..Len(par.units) : UnitStep(i)]_vars

\* three units have waited for the one worker of the pool, and the dispatch has
\* returned with all of them finished
C22_Witness ==
  /\ par.pc = "returned" /\ par.NP = 1
  /\ Len(par.units) = 3 /\ ~Unfinished /\ Len(par.finished) = 3
  /\ members # [i \in 1..3 |-> par.units[i].member]

\* C26: once a parallel dispatch has returned, the name index and the replaced member
\* list agree: the key of every current member is in the index and leads to that very
\* object, and hasMember of every current member returns True.
C26_IndexAgreesAfterParallel ==
  ParReturned
  => \A i \in 1..Len(members) :
       /\ IdKey(members[i]) \in DOMAIN dict
       /\ dict[IdKey(members[i])] = members[i]
       /\ hasMember(ObjArg(members[i]), members, dict, basetype) = Ret(TRUE)

\* the result set the recaster was given
Fs == last.arg.fs
\* the three kinds of result set the recaster accepts
AllNone == \A i \in 1..Len(Fs) : Fs[i].kind = "none"
AllPlainValues == \A i \in 1..Len(Fs) : Fs[i].kind \in {"plain", "none"}
AllOfOneKind ==
  \/ \A i \in 1..Len(Fs) : Fs[i].kind \in {"var", "axis"}
  \/ \A i \in 1..Len(Fs) : Fs[i].kind = "dataset"

\* C24: for every result set that is neither all None, nor made of plain values that
\* are neither callable nor member-typed, nor made of member-typed objects of one
\* kind, the recaster raises an error and returns no value.
C24_MixedResultsRaise ==
  (last.op = "recast" /\ ~AllNone /\ ~AllPlainValues /\ ~AllOfOneKind)
  => out.status # "ok"

\* the batch loader has been called
Batched == last.op = "batch"
\* no expansion directive was given at all
NoDirective == expand_list = None /\ inner_list = None /\ outer_list = None
\* the mappings the arguments of the batch load expand to
BatchExpansion == expandArgumentList(inner_list, outer_list, expand_list, lproduct, kwargs)
\* the call of load_fct with the mapping m
LoadCall(m) == [member |-> "load_fct", attr |-> "__call__", kwargs |-> m]

\* C23: with a directive given, the load function is called once for every mapping
\* of the expansion, in their order, and the k-th item collected is what it returned
\* for the k-th mapping; with no directive it is called once with the keyword
\* arguments, and that one result is returned itself, not a sequence.
C23_BatchLoadsOncePerMapping ==
  Batched
  => IF NoDirective
     THEN /\ calls = <<LoadCall(kwargs)>>
          /\ out.status = "ok" /\ out.shape = "dataset"
          /\ out.items = <<Loaded(kwargs)>>
     ELSE BatchExpansion.status = "ok"
          => LET E == BatchExpansion.value
             IN  /\ calls = [k \in 1..Len(E) |-> LoadCall(E[k])]
                 /\ out.status = "ok"
                    => /\ out.shape \in {"list", "ensemble"}
                       /\ out.items = [k \in 1..Len(E) |-> Loaded(E[k])]
                 /\ ~make_ensemble(last.arg.lensemble, last.arg.named) => out.status = "ok"

\* three datasets loaded for three mappings of an expansion and returned as a list
C23_Witness ==
  /\ Batched /\ ~NoDirective /\ BatchExpansion.status = "ok"
  /\ Len(calls) = 3 /\ calls[1] # calls[2] /\ calls[2] # calls[3]
  /\ out.status = "ok" /\ out.shape = "list" /\ Len(out.items) = 3

=============================================================================
